---- MODULE Spec2Model ----
(***************************************************************************)
(* State-machine model of the generation workspace:                        *)
(*   - useMediaAssets (asset store: addFiles / clearAll / unmount cleanup) *)
(*   - ChatSidebar.handleGeneration (prompt submission, runGeneration)     *)
(*   - the Correction Supervisor (bounded automatic re-generation)         *)
(* Strings are sequences of one-character strings so that lastIndexOf,     *)
(* slice, trim and startsWith are computed as the code computes them.      *)
(***************************************************************************)
EXTENDS Integers, Sequences, FiniteSets, TLC

VARIABLES
    assetList,      \* useState<MediaAsset[]>: the committed state
    queue,          \* pending setAssetList updates, in dispatch order
    blobUrlsRef,    \* blobUrlsRef.current
    created,        \* created[u] = id of the addFiles call whose updater created blob URL u
    revoked,        \* blob URLs passed to URL.revokeObjectURL
    addCalls,       \* number of addFiles calls issued so far
    clearedCalls,   \* value of addCalls at the latest clearAll call
    mounted,        \* the page (and with it the hook and the sidebar) is mounted
    prompt,         \* the parent's prompt state (latest value set by onPromptChange)
    promptRef,      \* promptRef.current
    code,           \* the parent's current source (latest value)
    currentCode,    \* the currentCode prop captured by the rendered handleGeneration
    inFlight,       \* runGeneration calls that have started and not yet completed
    awaitingText,   \* a prompt was accepted and the user has entered no text since
    svState,        \* Correction Supervisor: state of the per-turn machine
    attempts,       \* CorrectionAttemptCounter
    artifact,       \* the artifact that is displayed (0 = none)
    lastGood,       \* the last artifact that compiled and ran
    nextSource,     \* number of sources generated so far
    turns           \* number of user turns started so far

assetVars == <<assetList, queue, blobUrlsRef, created, revoked, addCalls,
               clearedCalls>>
chatVars  == <<prompt, promptRef, code, currentCode, inFlight, awaitingText>>
svVars    == <<svState, attempts, artifact, lastGood, nextSource, turns>>
vars      == <<assetVars, mounted, chatVars, svVars>>

(***************************************************************************)
(* Bounds                                                                  *)
(***************************************************************************)
MaxAdds == 1
MaxGenerations == 2
MaxTurns == 3

(***************************************************************************)
(* String helpers                                                          *)
(***************************************************************************)
Range(s) == {s[i] : i \in DOMAIN s}

\* String.prototype.lastIndexOf(c): 0-based index of the last c, -1 if none
LastIndexOf(s, c) ==
    LET hits == {i \in 1..Len(s) : s[i] = c}
    IN  IF hits = {} THEN -1
        ELSE (CHOOSE i \in hits : \A j \in hits : j <= i) - 1

\* String.prototype.slice(from, to) with 0-based, end-exclusive indices
Slice(s, from, to) == SubSeq(s, from + 1, to)

\* String.prototype.startsWith
StartsWith(s, p) == Len(s) >= Len(p) /\ SubSeq(s, 1, Len(p)) = p

Digit(d) == CASE d = 0 -> "0" [] d = 1 -> "1" [] d = 2 -> "2" [] d = 3 -> "3"
              [] d = 4 -> "4" [] d = 5 -> "5" [] d = 6 -> "6" [] d = 7 -> "7"
              [] d = 8 -> "8" [] d = 9 -> "9"

\* the decimal rendering of a template-literal number
RECURSIVE NumberToString(_)
NumberToString(n) == IF n < 10 THEN <<Digit(n)>>
                     ELSE NumberToString(n \div 10) \o <<Digit(n % 10)>>

IsSpace(c) == c = " "

\* String.prototype.trim
RECURSIVE TrimStart(_)
TrimStart(s) == IF s # <<>> /\ IsSpace(Head(s)) THEN TrimStart(Tail(s)) ELSE s

RECURSIVE TrimEnd(_)
TrimEnd(s) == IF s # <<>> /\ IsSpace(s[Len(s)])
              THEN TrimEnd(SubSeq(s, 1, Len(s) - 1)) ELSE s

Trim(s) == TrimEnd(TrimStart(s))

(***************************************************************************)
(* Files                                                                   *)
(***************************************************************************)
ImagePrefix == <<"i", "m", "a", "g", "e", "/">>
VideoPrefix == <<"v", "i", "d", "e", "o", "/">>
AudioPrefix == <<"a", "u", "d", "i", "o", "/">>

MimePng  == ImagePrefix \o <<"p", "n", "g">>
MimeMp4  == VideoPrefix \o <<"m", "p", "4">>
MimeText == <<"t", "e", "x", "t", "/", "p", "l", "a", "i", "n">>

NameA  == <<"a", ".", "p">>
NameA2 == <<"a", "_", "2", ".", "p">>
NameH  == <<".", "h">>

\* the File objects the user can attach: name, MIME type, size
FileA  == [name |-> NameA,  mime |-> MimePng,  size |-> 1]
FileA2 == [name |-> NameA2, mime |-> MimeMp4,  size |-> 1]
FileH  == [name |-> NameH,  mime |-> MimePng,  size |-> 0]
FileT  == [name |-> NameA,  mime |-> MimeText, size |-> 1]

\* the File[] arguments tried: none, one, a name collision inside one call,
\* a non-media file, an empty file (a captured frame is one)
FileLists == { <<>>, <<FileA>>, <<FileA, FileA>>, <<FileA2, FileT>>,
               <<FileH, FileA>> }

NoType == "null"

classifyFileType(mimeType) ==
    IF StartsWith(mimeType, ImagePrefix) THEN "image"
    ELSE IF StartsWith(mimeType, VideoPrefix) THEN "video"
    ELSE IF StartsWith(mimeType, AudioPrefix) THEN "audio"
    ELSE NoType

RECURSIVE ResolveCounter(_, _, _, _)
ResolveCounter(base, ext, existing, counter) ==
    IF (base \o <<"_">> \o NumberToString(counter) \o ext) \in existing
    THEN ResolveCounter(base, ext, existing, counter + 1)
    ELSE base \o <<"_">> \o NumberToString(counter) \o ext

resolveFilename(name, existing) ==
    IF name \notin existing THEN name
    ELSE LET dotIndex == LastIndexOf(name, ".")
             base == IF dotIndex > 0 THEN Slice(name, 0, dotIndex) ELSE name
             ext  == IF dotIndex > 0 THEN Slice(name, dotIndex, Len(name)) ELSE <<>>
         IN  ResolveCounter(base, ext, existing, 2)

(***************************************************************************)
(* useMediaAssets                                                          *)
(***************************************************************************)
NamesOf(list) == {list[i].name : i \in DOMAIN list}

\* the derived filename -> blobUrl record: later entries overwrite earlier ones
assets(list) ==
    [n \in NamesOf(list) |->
        LET hits == {i \in DOMAIN list : list[i].name = n}
        IN  list[CHOOSE i \in hits : \A j \in hits : j <= i].blobUrl]

\* the for-loop of the state updater; acc carries the objects the closure
\* mutates: newAssets, blobUrlsRef.current and the URLs created so far
RECURSIVE UpdaterLoop(_, _, _, _)
UpdaterLoop(files, existingNames, acc, callId) ==
    IF files = <<>> THEN acc
    ELSE LET file == Head(files)
             fileType == classifyFileType(file.mime)
         IN  IF fileType = NoType
             THEN UpdaterLoop(Tail(files), existingNames, acc, callId)
             ELSE LET resolvedName == resolveFilename(file.name, existingNames)
                      blobUrl == Len(acc.created) + 1
                      asset == [name |-> resolvedName,
                                originalName |-> file.name,
                                type |-> fileType,
                                mimeType |-> file.mime,
                                blobUrl |-> blobUrl,
                                size |-> file.size]
                  IN  UpdaterLoop(Tail(files),
                                  existingNames \cup {resolvedName},
                                  [newAssets |-> Append(acc.newAssets, asset),
                                   ref |-> Append(acc.ref, blobUrl),
                                   created |-> Append(acc.created, callId)],
                                  callId)

\* one execution of the updater (prev) => [...prev, ...newAssets]
RunUpdater(prev, files, acc, callId) ==
    LET out == UpdaterLoop(files, NamesOf(prev), acc, callId)
    IN  [state |-> prev \o out.newAssets, acc |-> out]

\* addFiles(files): dispatches the updater and returns newAssets.  React runs
\* the updater at once (eager state) only when nothing else is pending;
\* otherwise the updater first runs during the next render.
AddFilesCall(files, eager) ==
    LET id == addCalls + 1
        acc0 == [newAssets |-> <<>>, ref |-> blobUrlsRef, created |-> created]
        run == RunUpdater(assetList, files, acc0, id)
        acc == IF eager THEN run.acc ELSE acc0
        update == [kind |-> "add", id |-> id, files |-> files,
                   newAssets |-> acc.newAssets,
                   hasEagerState |-> eager,
                   eagerState |-> IF eager THEN run.state ELSE <<>>,
                   returned |-> acc.newAssets]
    IN  [queue |-> Append(queue, update), ref |-> acc.ref,
         created |-> acc.created, returned |-> acc.newAssets]

\* pending updates are capped: every addFiles call and one clearAll after each
MaxQueue == MaxAdds + 1

CanAddFiles(eager) ==
    /\ addCalls < MaxAdds
    /\ Len(queue) < MaxQueue
    /\ eager => queue = <<>>

AddFiles(files, eager) ==
    /\ mounted
    /\ CanAddFiles(eager)
    /\ LET r == AddFilesCall(files, eager)
       IN  /\ queue' = r.queue
           /\ blobUrlsRef' = r.ref
           /\ created' = r.created
    /\ addCalls' = addCalls + 1
    /\ UNCHANGED <<assetList, revoked, clearedCalls, mounted,
                   chatVars, svVars>>

ClearAll ==
    /\ mounted
    /\ Len(queue) < MaxQueue
    /\ revoked' = revoked \cup Range(blobUrlsRef)
    /\ blobUrlsRef' = <<>>
    /\ queue' = Append(queue, [kind |-> "set", id |-> 0, files |-> <<>>,
                               newAssets |-> <<>>, hasEagerState |-> FALSE,
                               eagerState |-> <<>>, returned |-> <<>>])
    /\ clearedCalls' = addCalls
    /\ UNCHANGED <<assetList, created, addCalls, mounted,
                   chatVars, svVars>>

\* React processing the pending updates of a render, in dispatch order.  With
\* twice, every updater is invoked one extra time and that result discarded.
RECURSIVE ProcessQueue(_, _, _)
ProcessQueue(q, st, twice) ==
    IF q = <<>> THEN st
    ELSE LET u == Head(q)
         IN  IF u.kind = "set"
             THEN ProcessQueue(Tail(q), [st EXCEPT !.state = <<>>], twice)
             ELSE LET acc0 == [newAssets |-> u.newAssets, ref |-> st.ref,
                               created |-> st.created]
                      acc1 == IF twice
                              THEN RunUpdater(st.state, u.files, acc0, u.id).acc
                              ELSE acc0
                      run == RunUpdater(st.state, u.files, acc1, u.id)
                      next == IF u.hasEagerState THEN u.eagerState ELSE run.state
                      acc2 == IF u.hasEagerState THEN acc1 ELSE run.acc
                  IN  ProcessQueue(Tail(q),
                                   [state |-> next, ref |-> acc2.ref,
                                    created |-> acc2.created],
                                   twice)

Rendered(twice) ==
    ProcessQueue(queue, [state |-> assetList, ref |-> blobUrlsRef,
                         created |-> created], twice)

\* a render of the page: pending asset updates are processed, the sidebar gets
\* the new props and its effect copies prompt into promptRef
RenderCommit(twice) ==
    /\ mounted
    /\ LET r == Rendered(twice)
       IN  /\ assetList' = r.state
           /\ blobUrlsRef' = r.ref
           /\ created' = r.created
    /\ queue' = <<>>
    /\ promptRef' = prompt
    /\ currentCode' = code
    /\ UNCHANGED <<addCalls, clearedCalls, mounted, prompt, code,
                   inFlight, awaitingText, svVars>>

\* the cleanup effect declared without its empty dependency list: it would run
\* on every re-render
RenderRevoking(twice) ==
    /\ RenderCommit(twice)
    /\ revoked' = revoked \cup Range(blobUrlsRef')

\* the cleanup effect has an empty dependency list: a re-render runs none
RenderWith(twice) ==
    /\ RenderCommit(twice)
    /\ UNCHANGED revoked

Render == \E twice \in BOOLEAN : RenderWith(twice)

\* the effect cleanup on unmount
Unmount ==
    /\ mounted
    /\ revoked' = revoked \cup Range(blobUrlsRef)
    /\ mounted' = FALSE
    /\ UNCHANGED <<assetList, queue, blobUrlsRef, created, addCalls,
                   clearedCalls, chatVars, svVars>>

(***************************************************************************)
(* useMediaAttachments: the AttachedFile objects ChatInput submits         *)
(***************************************************************************)
None == <<>>
Some(x) == <<x>>

MAX_ATTACHED_FILES == 10
MAX_IMAGE_SIZE_BYTES == 10 * 1024 * 1024
MAX_VIDEO_SIZE_BYTES == 200 * 1024 * 1024
MAX_AUDIO_SIZE_BYTES == 50 * 1024 * 1024

isMediaFile(file) ==
    \/ StartsWith(file.mime, ImagePrefix)
    \/ StartsWith(file.mime, VideoPrefix)
    \/ StartsWith(file.mime, AudioPrefix)

getMaxSizeForType(mimeType) ==
    IF StartsWith(mimeType, VideoPrefix) THEN MAX_VIDEO_SIZE_BYTES
    ELSE IF StartsWith(mimeType, AudioPrefix) THEN MAX_AUDIO_SIZE_BYTES
    ELSE MAX_IMAGE_SIZE_BYTES

getFileType(mimeType) ==
    IF StartsWith(mimeType, VideoPrefix) THEN "video"
    ELSE IF StartsWith(mimeType, AudioPrefix) THEN "audio"
    ELSE "image"

\* processFiles / addImageFromBase64: media files within the size limit become
\* attachments; images carry a base64 data URL
processFiles(files) ==
    LET valid(f) == isMediaFile(f) /\ f.size <= getMaxSizeForType(f.mime)
        validFiles == SelectSeq(files, valid)
        attach(f) == [file |-> f,
                      base64 |-> IF getFileType(f.mime) = "image"
                                 THEN Some(<<"base64">> \o f.name) ELSE None,
                      name |-> f.name,
                      type |-> getFileType(f.mime),
                      mimeType |-> f.mime,
                      size |-> f.size]
        combined == [i \in 1..Len(validFiles) |-> attach(validFiles[i])]
    IN  SubSeq(combined, 1, IF Len(combined) < MAX_ATTACHED_FILES
                            THEN Len(combined) ELSE MAX_ATTACHED_FILES)

(***************************************************************************)
(* ChatSidebar                                                             *)
(***************************************************************************)
Prompts == { <<>>, <<" ">>, <<"a", " ">> }

Meta(list) == [i \in DOMAIN list |-> [name |-> list[i].name, type |-> list[i].type]]

\* the options of a generation trigger: absent, or a record of optional fields
SubmitOptions(attachedFiles) ==
    Some([silent |-> None, attachedImages |-> None,
          attachedFiles |-> Some(attachedFiles)])

TriggerOptions ==
    { None,
      Some([silent |-> Some(TRUE), attachedImages |-> None, attachedFiles |-> None]) }

\* options?.attachedFiles, filtered as handleGeneration filters them
RawFiles(options) ==
    IF options = None \/ options[1].attachedFiles = None THEN <<>>
    ELSE LET attached == options[1].attachedFiles[1]
             files == [i \in DOMAIN attached |-> attached[i].file]
             nonEmpty(f) == f.size > 0
         IN  SelectSeq(files, nonEmpty)

\* options?.attachedImages || options?.attachedFiles?.filter(...).map(...)
FrameImages(options) ==
    IF options = None THEN None
    ELSE IF options[1].attachedImages # None THEN options[1].attachedImages
    ELSE IF options[1].attachedFiles = None THEN None
    ELSE LET attached == options[1].attachedFiles[1]
             isImage(f) == f.type = "image" /\ f.base64 # None
             images == SelectSeq(attached, isImage)
         IN  Some([i \in DOMAIN images |-> images[i].base64[1]])

AvailableAssets(existingAssets, newAssetMeta) ==
    IF Len(existingAssets) > 0 \/ Len(newAssetMeta) > 0
    THEN Some(existingAssets \o newAssetMeta)
    ELSE None

\* the runGeneration call handleGeneration makes
Request(currentPrompt, options, newAssetMeta) ==
    [prompt |-> currentPrompt,
     currentCode |-> currentCode,
     frameImages |-> FrameImages(options),
     availableAssets |-> AvailableAssets(Meta(assetList), newAssetMeta)]

\* whether the guard of line 139 lets the prompt through
Accepts(currentPrompt) == Trim(currentPrompt) # <<>>

handleGeneration(options, eager) ==
    /\ mounted
    /\ LET currentPrompt == promptRef
           rawFiles == RawFiles(options)
       IN  IF ~Accepts(currentPrompt)
           THEN UNCHANGED vars
           ELSE /\ Len(inFlight) < MaxGenerations
                /\ prompt' = <<>>
                /\ awaitingText' = TRUE
                /\ IF Len(rawFiles) > 0
                   THEN /\ CanAddFiles(eager)
                        /\ LET r == AddFilesCall(rawFiles, eager)
                           IN  /\ queue' = r.queue
                               /\ blobUrlsRef' = r.ref
                               /\ created' = r.created
                               /\ inFlight' = Append(inFlight,
                                      Request(currentPrompt, options, Meta(r.returned)))
                        /\ addCalls' = addCalls + 1
                   ELSE /\ ~eager
                        /\ inFlight' = Append(inFlight,
                                          Request(currentPrompt, options, <<>>))
                        /\ UNCHANGED <<queue, blobUrlsRef, created, addCalls>>
                /\ UNCHANGED <<assetList, revoked, clearedCalls, mounted,
                               promptRef, code, currentCode, svVars>>

\* ChatInput onSubmit; ChatInput is handed isLoading and blocks the submit
\* while a generation is running
Submit ==
    \E files \in FileLists, eager \in BOOLEAN :
        /\ inFlight = <<>>
        /\ handleGeneration(SubmitOptions(processFiles(files)), eager)

\* the imperative handle
triggerGeneration ==
    \E options \in TriggerOptions :
        handleGeneration(options, FALSE)

\* ChatInput onPromptChange: the user edits the prompt
UserType ==
    \E p \in Prompts :
        /\ mounted
        /\ prompt' = p
        /\ awaitingText' = FALSE
        /\ UNCHANGED <<assetVars, mounted, promptRef, code, currentCode,
                       inFlight, svVars>>

\* the awaited runGeneration call settles; on success onCodeGenerated hands
\* the parent a new source
RunGenerationComplete ==
    \E i \in DOMAIN inFlight, ok \in BOOLEAN :
        /\ mounted
        /\ inFlight' = SubSeq(inFlight, 1, i - 1) \o SubSeq(inFlight, i + 1, Len(inFlight))
        /\ IF ok
           THEN /\ code < MaxGenerations
                /\ code' = code + 1
           ELSE UNCHANGED code
        /\ UNCHANGED <<assetVars, mounted, prompt, promptRef, currentCode,
                       awaitingText, svVars>>

AddFilesAction == \E files \in FileLists, eager \in BOOLEAN : AddFiles(files, eager)

Init ==
    /\ assetList = <<>>
    /\ queue = <<>>
    /\ blobUrlsRef = <<>>
    /\ created = <<>>
    /\ revoked = {}
    /\ addCalls = 0
    /\ clearedCalls = 0
    /\ mounted = TRUE
    /\ prompt = <<>>
    /\ promptRef = <<>>
    /\ code = 0
    /\ currentCode = 0
    /\ inFlight = <<>>
    /\ awaitingText = FALSE
    /\ svState = "Idle"
    /\ attempts = 0
    /\ artifact = 0
    /\ lastGood = 0
    /\ nextSource = 0
    /\ turns = 0

\* the workspace: every asset reaches the store through a submitted prompt
Next ==
    \/ Submit
    \/ triggerGeneration
    \/ UserType
    \/ RunGenerationComplete
    \/ ClearAll
    \/ Render
    \/ Unmount

Spec == Init /\ [][Next]_vars

\* the hook on its own, driven through its interface
NextAssets ==
    \/ AddFilesAction
    \/ ClearAll
    \/ Render
    \/ Unmount

SpecAssets == Init /\ [][NextAssets]_vars

\* the asset store with its only caller in the workspace, the submitted prompt
NextStore ==
    \/ Submit
    \/ UserType
    \/ RunGenerationComplete
    \/ ClearAll
    \/ Render
    \/ Unmount

SpecStore == Init /\ [][NextStore]_vars

(***************************************************************************)
(* Correction Supervisor (the auto-correction of the Generate page)        *)
(***************************************************************************)
MAX_CORRECTION_ATTEMPTS == 3

RetryableFailures == {"CompileError", "RuntimeError", "Inapplicable"}

\* a user turn begins: the counter is reset and a source is generated
StartTurn ==
    /\ svState \in {"Idle", "Success", "GivingUp"}
    /\ turns < MaxTurns
    /\ turns' = turns + 1
    /\ attempts' = 0
    /\ nextSource' = nextSource + 1
    /\ svState' = "Attempting"
    /\ UNCHANGED <<artifact, lastGood, assetVars, mounted, chatVars>>

\* the generated source compiles and renders: it supersedes the artifact
AttemptSucceeds ==
    /\ svState = "Attempting"
    /\ artifact' = nextSource
    /\ lastGood' = nextSource
    /\ svState' = "Success"
    /\ UNCHANGED <<attempts, nextSource, turns, assetVars, mounted, chatVars>>

\* the off-by-one comparison: a retry is still granted at the limit
CanRetryInclusive(n) == n <= MAX_CORRECTION_ATTEMPTS

\* a retry is granted while the attempt counter is below the limit
CanRetry(n) == n < MAX_CORRECTION_ATTEMPTS

\* a compile, runtime or edit-inapplicable failure of the generated source
AttemptFails ==
    \E kind \in RetryableFailures :
        /\ svState = "Attempting"
        /\ IF CanRetry(attempts)
           THEN /\ attempts' = attempts + 1
                /\ svState' = "Retrying"
           ELSE /\ svState' = "GivingUp"
                /\ UNCHANGED attempts
        /\ UNCHANGED <<artifact, lastGood, nextSource, turns, assetVars, mounted,
                       chatVars>>

\* the retry re-enters the Source Generator, which returns a new source
Regenerate ==
    /\ svState = "Retrying"
    /\ nextSource' = nextSource + 1
    /\ svState' = "Attempting"
    /\ UNCHANGED <<attempts, artifact, lastGood, turns, assetVars, mounted, chatVars>>

\* an environment failure of the retry is surfaced at once and ends the turn
ProviderError ==
    /\ svState = "Retrying"
    /\ svState' = "Idle"
    /\ UNCHANGED <<attempts, artifact, lastGood, nextSource, turns, assetVars,
                   mounted, chatVars>>

NextSupervisor ==
    \/ StartTurn
    \/ AttemptSucceeds
    \/ AttemptFails
    \/ Regenerate
    \/ ProviderError

SpecSupervisor == Init /\ [][NextSupervisor]_vars

(***************************************************************************)
(* Properties                                                              *)
(***************************************************************************)

\* C1: at most one generation request is in flight: no two runGeneration
\* calls that are running at the same time were started against the same
\* currentCode.
C1_OneInFlightPerSource ==
    \A i, j \in DOMAIN inFlight :
        i # j => inFlight[i].currentCode # inFlight[j].currentCode

\* C2 as stated: a step that revokes a blob URL is a clearAll call.
C2_RevokedOnlyByClearAll == [][revoked' # revoked => ClearAll]_vars

\* C2, amended: a step that revokes a blob URL is a clearAll call or the
\* cleanup on unmount; addFiles, re-renders and generation triggers revoke
\* nothing.
C2_RevokedOnlyByClearAllOrUnmount ==
    [][revoked' # revoked => (ClearAll \/ Unmount)]_vars

\* a prompt with files was submitted, clearAll revoked the URLs of its assets
\* and the page has re-rendered since, still mounted
C2_Witness ==
    /\ mounted
    /\ revoked # {}
    /\ queue = <<>>
    /\ addCalls > 0
    /\ inFlight # <<>>

MediaFiles(files) == SelectSeq(files, isMediaFile)

\* what the pending updates make of state when every addFiles call appends
\* exactly the list it returned
RECURSIVE AppendReturned(_, _)
AppendReturned(q, state) ==
    IF q = <<>> THEN state
    ELSE AppendReturned(Tail(q), IF Head(q).kind = "set" THEN <<>>
                                 ELSE state \o Head(q).returned)

\* C3: the list an addFiles call returned is the list of assets the call
\* appends to assetList once its update is rendered, one asset per media file
\* of the input.
C3_ReturnsWhatItAppends ==
    [][(queue # <<>> /\ queue' = <<>>) =>
          /\ assetList' = AppendReturned(queue, assetList)
          /\ \A i \in DOMAIN queue :
                queue[i].kind = "add" =>
                    Len(queue[i].returned) = Len(MediaFiles(queue[i].files))]_vars

\* C4: the names in assetList are pairwise distinct, so the assets record has
\* one entry per asset.
C4_NamesDistinct ==
    /\ \A i, j \in DOMAIN assetList :
          i # j => assetList[i].name # assetList[j].name
    /\ Cardinality(DOMAIN assets(assetList)) = Len(assetList)

\* C5: once the pending updates are rendered, every blob URL created by an
\* addFiles call issued before the latest clearAll is revoked and no asset of
\* such a call is in assetList.
C5_ClearAllRevokesAll ==
    queue = <<>> =>
        /\ \A u \in DOMAIN created : created[u] <= clearedCalls => u \in revoked
        /\ \A i \in DOMAIN assetList : created[assetList[i].blobUrl] > clearedCalls

\* C6: a turn makes at most 3 automatic re-generations, and whatever its
\* outcome the artifact displayed is the last one that compiled and ran: the
\* new one after a success, the earlier one after giving up.
C6_BoundedCorrection ==
    /\ attempts <= MAX_CORRECTION_ATTEMPTS
    /\ artifact = lastGood
    /\ svState = "Success" => artifact = nextSource
    /\ svState = "GivingUp" => (attempts = MAX_CORRECTION_ATTEMPTS /\ artifact < nextSource)

\* a turn used its three retries and gave up while an earlier turn's artifact
\* is still displayed
C6_Witness ==
    /\ svState = "GivingUp"
    /\ attempts = MAX_CORRECTION_ATTEMPTS
    /\ artifact > 0

\* C7: after a prompt was accepted and until the user enters text again, no
\* trigger starts a runGeneration call.
C7_PromptSentOnce ==
    [][awaitingText => Len(inFlight') <= Len(inFlight)]_vars

====
